---------------------------- MODULE Spec2Model ----------------------------
(***************************************************************************)
(* Model of solar_optimizer.py: TariffSchedule, SolarSystem,               *)
(* EnergyOptimizer and EnergyMonitor.                                      *)
(*                                                                         *)
(* Numbers.  Times of day are minutes since 00:00.  Tariff rates are in    *)
(* hundredths (0.40 -> 40).  Solar generation is kept exactly, as an       *)
(* integer number of 1/Scale parts of a kW (triangle numerator over 6,     *)
(* noise in percent).  The storage buffer's arithmetic is Python float     *)
(* arithmetic, which rounds every result: it is modelled by a binary       *)
(* floating-point format of Precision mantissa bits, round to nearest,     *)
(* ties to even (FRound), over multiples of one quantum of energy.         *)
(***************************************************************************)
EXTENDS Integers, Sequences, FiniteSets, TLC

VARIABLES
    clock,               \* datetime.now().time(), minutes since 00:00
    rate,                \* <<the value get_current_rate returned>>, or <<>>
    capacity_kw,         \* SolarSystem.capacity_kw
    current_generation,  \* SolarSystem.current_generation
    stored_energy,       \* SolarSystem.stored_energy
    max_storage,         \* SolarSystem.max_storage
    lastCall,            \* the last store_energy / use_stored_energy call
    appliance_schedule,  \* EnergyOptimizer.appliance_schedule, insertion order
    pc,                  \* "idle", or "loop" inside optimize_schedule
    window,              \* forecast_window_hours of the running call
    hour,                \* loop variable of optimize_schedule
    schedule,            \* the local dict schedule of optimize_schedule
    noise,               \* the random.uniform draw of each hour of the call
    outcome,             \* how the last optimize_schedule call ended
    returned,            \* <<the schedule last returned, with its inputs>>, or <<>>
    usage_history,       \* EnergyMonitor.usage_history
    cost_history,        \* EnergyMonitor.cost_history
    summary              \* <<the dict get_daily_summary returned>>, or <<>>

vars == <<clock, rate, capacity_kw, current_generation, stored_energy,
          max_storage, lastCall, appliance_schedule, pc, window, hour,
          schedule, noise, outcome, returned, usage_history, cost_history,
          summary>>

tariffVars == <<clock, rate>>
solarVars == <<capacity_kw, current_generation, stored_energy, max_storage,
               lastCall>>
optimizerVars == <<appliance_schedule, pc, window, hour, schedule, noise,
                   outcome, returned>>
monitorVars == <<usage_history, cost_history, summary>>

None == "none"

Abs(x) == IF x < 0 THEN -x ELSE x

Min(a, b) == IF a <= b THEN a ELSE b

Max(a, b) == IF a >= b THEN a ELSE b

(***************************************************************************)
(* TariffSchedule                                                          *)
(***************************************************************************)
\* Hours of a day: datetime.replace(hour=h) takes h in 0..HoursPerDay-1.
HoursPerDay == 24

MinutesPerDay == HoursPerDay * 60

\* time(h, m)
TimeOf(h, m) == h * 60 + m

\* self.periods, in the dict's insertion order (the order .items() iterates).
periods ==
    << [name |-> "peak", start |-> TimeOf(14, 0), end |-> TimeOf(20, 0), rate |-> 40],
       [name |-> "shoulder", start |-> TimeOf(7, 0), end |-> TimeOf(14, 0), rate |-> 25],
       [name |-> "off_peak", start |-> TimeOf(20, 0), end |-> TimeOf(7, 0), rate |-> 15] >>

OffPeakRate == periods[3].rate

PeriodMatchesEndInclusive(details, current_time) ==
    IF details.end < details.start
    THEN current_time >= details.start \/ current_time <= details.end
    ELSE details.start <= current_time /\ current_time <= details.end

\* The test of one period inside the loop of get_current_rate.
PeriodMatches(details, current_time) ==
    IF details.end < details.start
    THEN current_time >= details.start \/ current_time < details.end
    ELSE details.start <= current_time /\ current_time < details.end

\* The index of the first period of the loop that returns, 0 when none does.
RECURSIVE FirstMatch(_, _)
FirstMatch(i, current_time) ==
    IF i > Len(periods) THEN 0
    ELSE IF PeriodMatches(periods[i], current_time) THEN i
    ELSE FirstMatch(i + 1, current_time)

get_current_rate(current_time) ==
    LET i == FirstMatch(1, current_time)
    IN  IF i = 0 THEN periods[3].rate ELSE periods[i].rate

\* rate = tariff_schedule.get_current_rate(), read at the wall clock.
GetCurrentRate ==
    /\ rate' = <<get_current_rate(clock)>>
    /\ UNCHANGED <<clock, solarVars, optimizerVars, monitorVars>>

\* The wall clock advances by a minute; the rate read before is out of date.
Tick ==
    /\ clock' = (clock + 1) % MinutesPerDay
    /\ rate' = <<>>
    /\ UNCHANGED <<solarVars, optimizerVars, monitorVars>>

(***************************************************************************)
(* SolarSystem: generation                                                 *)
(***************************************************************************)
\* The values of random.uniform(0.8, 1.0), in percent.
NoiseLow == 80

NoiseHigh == 100

Noise == {NoiseLow, (NoiseLow + NoiseHigh) \div 2, NoiseHigh}

\* current_generation counts 1/Scale parts of a kW.
Scale == 6 * 100

GenerationNoAbs(capacity, h, u) ==
    IF 6 <= h /\ h <= 18 THEN capacity * (6 - (h - 12)) * u ELSE 0

\* update_generation: capacity_kw * (1 - abs(hour - 12) / 6) * U, times Scale.
Generation(capacity, h, u) ==
    IF 6 <= h /\ h <= 18 THEN capacity * (6 - Abs(h - 12)) * u ELSE 0

UpdateGeneration(h, u) ==
    /\ current_generation' = Generation(capacity_kw, h, u)
    /\ lastCall' = [op |-> "update_generation", hour |-> h, u |-> u,
                    ret |-> Generation(capacity_kw, h, u)]
    /\ UNCHANGED <<capacity_kw, stored_energy, max_storage>>
    /\ UNCHANGED <<tariffVars, optimizerVars, monitorVars>>

(***************************************************************************)
(* SolarSystem: storage, in float arithmetic                               *)
(***************************************************************************)
\* Mantissa bits of the modelled float format (binary64 has 53).
Precision == 3

Pow2(n) == 2 ^ n

\* The exponent of the binade of a >= 0: least e with a < 2^(Precision + e).
RECURSIVE BinadeOf(_, _)
BinadeOf(a, e) == IF a < Pow2(Precision + e) THEN e ELSE BinadeOf(a, e + 1)

\* Round to nearest representable value, ties to the even mantissa.
FRound(x) ==
    LET a == Abs(x)
        u == Pow2(BinadeOf(a, 0))
        q == a \div u
        r == a % u
        up == \/ 2 * r > u
              \/ 2 * r = u /\ q % 2 = 1
        m == (IF up THEN q + 1 ELSE q) * u
    IN  IF x < 0 THEN -m ELSE m

FAdd(a, b) == FRound(a + b)

FSub(a, b) == FRound(a - b)

\* The SolarSystem as __init__ leaves it.
SolarSystemInit(capacity) ==
    /\ capacity_kw = capacity
    /\ current_generation = 0
    /\ stored_energy = 0
    /\ max_storage = FRound(capacity * 4)
    /\ lastCall = [op |-> None]

AmountToStoreUnclamped(stored, max, amount) == amount

\* store_energy: the returned amount_to_store, and stored_energy afterwards.
AmountToStore(stored, max, amount) == Min(amount, FSub(max, stored))

StoredAfterStore(stored, max, amount) ==
    FAdd(stored, AmountToStore(stored, max, amount))

\* use_stored_energy: the returned amount_to_use, and stored_energy afterwards.
AmountToUse(stored, amount) == Min(amount, stored)

StoredAfterUse(stored, amount) == FSub(stored, AmountToUse(stored, amount))

StoreEnergy(amount) ==
    /\ stored_energy' = StoredAfterStore(stored_energy, max_storage, amount)
    /\ lastCall' = [op |-> "store_energy", amount |-> amount,
                    ret |-> AmountToStore(stored_energy, max_storage, amount),
                    before |-> stored_energy,
                    fields |-> <<capacity_kw, max_storage, current_generation>>]
    /\ UNCHANGED <<capacity_kw, current_generation, max_storage>>
    /\ UNCHANGED <<tariffVars, optimizerVars, monitorVars>>

UseStoredEnergy(amount) ==
    /\ stored_energy' = StoredAfterUse(stored_energy, amount)
    /\ lastCall' = [op |-> "use_stored_energy", amount |-> amount,
                    ret |-> AmountToUse(stored_energy, amount),
                    before |-> stored_energy,
                    fields |-> <<capacity_kw, max_storage, current_generation>>]
    /\ UNCHANGED <<capacity_kw, current_generation, max_storage>>
    /\ UNCHANGED <<tariffVars, optimizerVars, monitorVars>>

(***************************************************************************)
(* EnergyOptimizer                                                         *)
(***************************************************************************)
\* The position of name among the keys of appliance_schedule, 0 when absent.
RECURSIVE KeyIndex(_, _, _)
KeyIndex(registry, name, i) ==
    IF i > Len(registry) THEN 0
    ELSE IF registry[i].name = name THEN i
    ELSE KeyIndex(registry, name, i + 1)

\* add_appliance: a dict assignment; an existing key keeps its position.
AddAppliance(name, power_usage, flexible_timing) ==
    /\ pc = "idle"
    /\ LET entry == [name |-> name, power_usage |-> power_usage,
                     flexible_timing |-> flexible_timing,
                     scheduled_runs |-> <<>>]
           i == KeyIndex(appliance_schedule, name, 1)
       IN  appliance_schedule' =
               IF i = 0 THEN Append(appliance_schedule, entry)
               ELSE [appliance_schedule EXCEPT ![i] = entry]
    /\ UNCHANGED <<pc, window, hour, schedule, noise, outcome, returned>>
    /\ UNCHANGED <<tariffVars, solarVars, monitorVars>>

\* Time passes between two calls: the wall clock reads t.  (A call is over
\* within one reading of the clock: datetime.now() gives every iteration of
\* its loop the same time of day.)
WallClock(t) ==
    /\ pc = "idle"
    /\ clock' = t
    /\ UNCHANGED <<rate, solarVars, optimizerVars, monitorVars>>

\* optimize_schedule is called: schedule = {}, and the loop starts.  draws is
\* what random.uniform will return at each hour of this call.
StartOptimize(forecast_window_hours, draws) ==
    /\ pc = "idle"
    /\ pc' = "loop"
    /\ window' = forecast_window_hours
    /\ hour' = 0
    /\ schedule' = <<>>
    /\ noise' = draws
    /\ outcome' = None
    /\ UNCHANGED <<appliance_schedule, returned>>
    /\ UNCHANGED <<tariffVars, solarVars, monitorVars>>

ShouldRunAtLeast(details, solar_generation, r) ==
    /\ details.flexible_timing
    /\ \/ solar_generation >= details.power_usage
       \/ r = periods[3].rate

\* The two nested conditions on an appliance in the inner loop.
ShouldRun(details, solar_generation, r) ==
    /\ details.flexible_timing
    /\ \/ solar_generation > details.power_usage
       \/ r = periods[3].rate

\* The inner loop over appliance_schedule.items(), from position i on.
RECURSIVE PlaceFrom(_, _, _, _, _)
PlaceFrom(sched, i, h, solar_generation, r) ==
    IF i > Len(appliance_schedule) THEN sched
    ELSE LET details == appliance_schedule[i]
             keyed == IF h \in DOMAIN sched THEN sched ELSE sched @@ (h :> <<>>)
             next == IF ShouldRun(details, solar_generation, r)
                     THEN [keyed EXCEPT ![h] = Append(@, details.name)]
                     ELSE sched
         IN  PlaceFrom(next, i + 1, h, solar_generation, r)

\* One iteration of the loop over range(forecast_window_hours).
OptimizeHour ==
    /\ pc = "loop"
    /\ hour < window
    /\ hour < HoursPerDay
    /\ LET r == get_current_rate(clock)
           solar_generation == Generation(capacity_kw, hour, noise[hour])
       IN  /\ rate' = <<r>>
           /\ current_generation' = solar_generation
           /\ lastCall' = [op |-> "update_generation", hour |-> hour,
                           u |-> noise[hour], ret |-> solar_generation]
           /\ schedule' = PlaceFrom(schedule, 1, hour, solar_generation, r)
    /\ hour' = hour + 1
    /\ UNCHANGED <<clock, capacity_kw, stored_energy, max_storage>>
    /\ UNCHANGED <<appliance_schedule, pc, window, noise, outcome, returned>>
    /\ UNCHANGED monitorVars

\* current_time.replace(hour=hour) raises ValueError: hour must be in 0..23.
OptimizeRaise ==
    /\ pc = "loop"
    /\ hour < window
    /\ hour >= HoursPerDay
    /\ pc' = "idle"
    /\ outcome' = "ValueError"
    /\ UNCHANGED <<appliance_schedule, window, hour, schedule, noise, returned>>
    /\ UNCHANGED <<tariffVars, solarVars, monitorVars>>

\* The range is exhausted: return schedule.
OptimizeReturn ==
    /\ pc = "loop"
    /\ hour >= window
    /\ pc' = "idle"
    /\ outcome' = "returned"
    /\ returned' = <<[appliances |-> appliance_schedule, window |-> window,
                      noise |-> noise, schedule |-> schedule]>>
    /\ UNCHANGED <<appliance_schedule, window, hour, schedule, noise>>
    /\ UNCHANGED <<tariffVars, solarVars, monitorVars>>

(***************************************************************************)
(* EnergyMonitor                                                           *)
(***************************************************************************)
\* The slice [-24:] of get_daily_summary.
DailyWindow == 24

RECURSIVE Gcd(_, _)
Gcd(a, b) == IF b = 0 THEN a ELSE Gcd(b, a % b)

\* The quotient n / d as a fraction in lowest terms with a positive denominator.
Quotient(n, d) ==
    LET g == Gcd(Abs(n), Abs(d))
        s == IF d < 0 THEN -1 ELSE 1
    IN  <<(s * n) \div g, (s * d) \div g>>

Zero == <<0, 1>>

\* record_usage
RecordUsage(timestamp, usage, cost) ==
    /\ usage_history' = Append(usage_history,
                               [timestamp |-> timestamp, usage |-> usage])
    /\ cost_history' = Append(cost_history,
                              [timestamp |-> timestamp, cost |-> cost])
    /\ summary' = <<>>
    /\ UNCHANGED <<tariffVars, solarVars, optimizerVars>>

LastAll(history, n) == history

\* history[-n:]
Last(history, n) ==
    SubSeq(history, Max(1, Len(history) - n + 1), Len(history))

RECURSIVE SumUsage(_)
SumUsage(records) ==
    IF records = <<>> THEN 0 ELSE Head(records).usage + SumUsage(Tail(records))

RECURSIVE SumCost(_)
SumCost(records) ==
    IF records = <<>> THEN 0 ELSE Head(records).cost + SumCost(Tail(records))

\* daily_cost / daily_usage if daily_usage > 0 else 0
AverageRate(daily_cost, daily_usage) ==
    IF daily_usage > 0 THEN Quotient(daily_cost, daily_usage) ELSE Zero

get_daily_summary(usages, costs) ==
    IF usages = <<>>
    THEN [total_usage |-> 0, total_cost |-> 0, average_rate |-> Zero]
    ELSE LET daily_usage == SumUsage(Last(usages, DailyWindow))
             daily_cost == SumCost(Last(costs, DailyWindow))
         IN  [total_usage |-> daily_usage, total_cost |-> daily_cost,
              average_rate |-> AverageRate(daily_cost, daily_usage)]

GetDailySummary ==
    /\ summary' = <<get_daily_summary(usage_history, cost_history)>>
    /\ UNCHANGED <<usage_history, cost_history>>
    /\ UNCHANGED <<tariffVars, solarVars, optimizerVars>>

(***************************************************************************)
(* Initial states and specifications                                       *)
(***************************************************************************)
TariffInit(t) ==
    /\ clock = t
    /\ rate = <<>>

OptimizerInit ==
    /\ appliance_schedule = <<>>
    /\ pc = "idle"
    /\ window = 0
    /\ hour = 0
    /\ schedule = <<>>
    /\ noise = <<>>
    /\ outcome = None
    /\ returned = <<>>

MonitorInit ==
    /\ usage_history = <<>>
    /\ cost_history = <<>>
    /\ summary = <<>>

\* SolarSystem(capacity_kw=10.0) of main and of run_demo.
MainCapacity == 10

\* --- the tariff lookup at every minute of the day
InitTariff ==
    /\ \E t \in 0..(MinutesPerDay - 1) : TariffInit(t)
    /\ SolarSystemInit(MainCapacity)
    /\ OptimizerInit
    /\ MonitorInit

NextTariff == GetCurrentRate \/ Tick

SpecTariff == InitTariff /\ [][NextTariff]_vars

\* --- update_generation for every capacity, hour and noise value
MaxCapacity == 4

InitGeneration ==
    /\ TariffInit(0)
    /\ \E c \in 1..MaxCapacity : SolarSystemInit(c)
    /\ OptimizerInit
    /\ MonitorInit

NextGeneration ==
    \E h \in 0..(HoursPerDay - 1), u \in Noise : UpdateGeneration(h, u)

SpecGeneration == InitGeneration /\ [][NextGeneration]_vars

\* --- the storage buffer; capacities and amounts are floats of the format
StorageCapacities == {0, 1, 5, 7}

NonNegativeAmounts == {0, 1, 2, 6, 112}

Amounts == NonNegativeAmounts \cup {-1, -6}

InitStorage ==
    /\ TariffInit(0)
    /\ \E c \in StorageCapacities : SolarSystemInit(c)
    /\ OptimizerInit
    /\ MonitorInit

NextStorage ==
    \E amount \in Amounts : StoreEnergy(amount) \/ UseStoredEnergy(amount)

SpecStorage == InitStorage /\ [][NextStorage]_vars

NextStorageNonNegative ==
    \E amount \in NonNegativeAmounts :
        StoreEnergy(amount) \/ UseStoredEnergy(amount)

SpecStorageNonNegative == InitStorage /\ [][NextStorageNonNegative]_vars

\* --- the optimizer
Names == {"Dishwasher", "Refrigerator"}

Powers == {4 * Scale, 8 * Scale}

\* The wall clock at the moment of a call: off-peak (02:00), peak (15:00).
CallTimes == {TimeOf(2, 0), TimeOf(15, 0)}

ShortWindow == 2

MaxWindow == 25

\* forecast_window_hours: none, a few hours, a day, more than a day.
Windows == {0, ShortWindow, HoursPerDay, MaxWindow}

\* What random.uniform returns over a call, hour by hour.
NoiseProfiles ==
    { [h \in 0..(HoursPerDay - 1) |-> NoiseHigh],
      [h \in 0..(HoursPerDay - 1) |-> IF h < 12 THEN NoiseLow ELSE NoiseHigh] }

InitOptimizer ==
    /\ \E t \in CallTimes : TariffInit(t)
    /\ SolarSystemInit(MainCapacity)
    /\ OptimizerInit
    /\ MonitorInit

NextOptimizer ==
    \/ \E name \in Names, p \in Powers, f \in BOOLEAN : AddAppliance(name, p, f)
    \/ \E t \in CallTimes : WallClock(t)
    \/ \E w \in Windows, draws \in NoiseProfiles : StartOptimize(w, draws)
    \/ OptimizeHour
    \/ OptimizeRaise
    \/ OptimizeReturn

SpecOptimizer == InitOptimizer /\ [][NextOptimizer]_vars

\* --- the monitor
MaxRecords == 26

\* Readings other than BaseReading a log may hold.
MaxOther == 2

BaseReading == [timestamp |-> 0, usage |-> 1, cost |-> 1]

OtherReadings ==
    { [timestamp |-> 1, usage |-> 2, cost |-> 1],
      [timestamp |-> 1, usage |-> -3, cost |-> 1] }

Others ==
    Cardinality({i \in DOMAIN usage_history :
                     usage_history[i].usage # BaseReading.usage})

InitMonitor ==
    /\ TariffInit(0)
    /\ SolarSystemInit(MainCapacity)
    /\ OptimizerInit
    /\ MonitorInit

NextMonitor ==
    \/ \E r \in {BaseReading} \cup OtherReadings :
          /\ Len(usage_history) < MaxRecords
          /\ r = BaseReading \/ Others < MaxOther
          /\ RecordUsage(r.timestamp, r.usage, r.cost)
    \/ GetDailySummary

SpecMonitor == InitMonitor /\ [][NextMonitor]_vars

(***************************************************************************)
(* Claims                                                                  *)
(***************************************************************************)
InLoop == pc = "loop" /\ hour > 0

\* The rate the default periods give at time of day t.
DefaultRate(t) ==
    IF TimeOf(14, 0) <= t /\ t < TimeOf(20, 0) THEN 40
    ELSE IF TimeOf(7, 0) <= t /\ t < TimeOf(14, 0) THEN 25
    ELSE 15

\* Whether name is in hour h's list of sched.
Listed(sched, h, name) ==
    /\ h \in DOMAIN sched
    /\ \E j \in DOMAIN sched[h] : sched[h][j] = name

\* Every name listed in sched is a flexible appliance of registry.
OnlyFlexibleRegistered(sched, registry) ==
    \A h \in DOMAIN sched : \A j \in DOMAIN sched[h] :
        \E i \in DOMAIN registry :
            /\ registry[i].name = sched[h][j]
            /\ registry[i].flexible_timing

\* C1: the hour the loop has just processed lists an appliance exactly when it
\* is flexible and (the generation computed for that hour is strictly above
\* its power draw, or the rate computed for that hour equals the off-peak
\* rate), and so does every hour processed before it, for the generation of
\* its noise draw and the rate read at the wall clock of the call; every
\* listed name, in any hour, is a registered flexible appliance.
C1_ListedIffFlexibleAndEligible ==
    /\ InLoop =>
         /\ \A i \in DOMAIN appliance_schedule :
              LET a == appliance_schedule[i]
              IN  Listed(schedule, hour - 1, a.name) <=>
                      /\ a.flexible_timing
                      /\ \/ current_generation > a.power_usage
                         \/ rate = <<OffPeakRate>>
         /\ \A h \in 0..(hour - 1) : \A i \in DOMAIN appliance_schedule :
              LET a == appliance_schedule[i]
              IN  Listed(schedule, h, a.name) <=>
                      /\ a.flexible_timing
                      /\ \/ capacity_kw * (6 - Abs(h - 12)) * noise[h]
                                 > a.power_usage /\ h \in 6..18
                         \/ DefaultRate(clock) = 15
         /\ DOMAIN schedule \subseteq 0..(hour - 1)
         /\ OnlyFlexibleRegistered(schedule, appliance_schedule)
    /\ returned # <<>> =>
         OnlyFlexibleRegistered(returned[1].schedule, returned[1].appliances)

\* C1 witness: at a peak-rate hour a flexible appliance is listed, a
\* non-flexible one that the generation would cover is not, and an earlier
\* hour has no list at all.
C1_Witness ==
    /\ InLoop
    /\ rate # <<OffPeakRate>>
    /\ \E i, j \in DOMAIN appliance_schedule :
          /\ appliance_schedule[i].flexible_timing
          /\ Listed(schedule, hour - 1, appliance_schedule[i].name)
          /\ ~appliance_schedule[j].flexible_timing
          /\ appliance_schedule[j].power_usage < current_generation
          /\ ~Listed(schedule, hour - 1, appliance_schedule[j].name)
    /\ \E h \in 0..(hour - 2) : h \notin DOMAIN schedule

\* C2: the rate that decides hour h is the rate of the tariff period holding
\* h:00, whatever the wall clock reads when the call is made; so with no
\* generation at hour 2 a flexible appliance is listed there, and one whose
\* draw is above the generation of hour 15 is not listed at hour 15.
C2_RateOfTheHour ==
    InLoop =>
        /\ rate = <<get_current_rate(TimeOf(hour - 1, 0))>>
        /\ \A i \in DOMAIN appliance_schedule :
             LET a == appliance_schedule[i]
             IN  /\ hour - 1 = 2 /\ a.flexible_timing
                     => Listed(schedule, 2, a.name)
                 /\ hour - 1 = 15 /\ current_generation <= a.power_usage
                     => ~Listed(schedule, 15, a.name)

\* C3: with capacity_kw >= 0 and only non-negative amounts stored and
\* withdrawn, stored_energy stays within [0, max_storage].
C3_StoredWithinCapacity ==
    /\ 0 <= stored_energy
    /\ stored_energy <= max_storage

\* C4: store returns min(amount, max_storage - stored_energy) and adds the
\* returned value to stored_energy; withdraw returns min(amount,
\* stored_energy) and subtracts the returned value; neither changes
\* capacity_kw, max_storage or current_generation.  (The sums and differences
\* are the program's float operations.)
C4_StoreAndWithdrawMoveTheReturnedAmount ==
    /\ lastCall.op = "store_energy" =>
         LET available == FRound(max_storage - lastCall.before)
         IN  /\ lastCall.ret =
                   (IF lastCall.amount <= available THEN lastCall.amount
                    ELSE available)
             /\ stored_energy = FRound(lastCall.before + lastCall.ret)
             /\ lastCall.fields =
                   <<capacity_kw, max_storage, current_generation>>
    /\ lastCall.op = "use_stored_energy" =>
         /\ lastCall.ret =
               (IF lastCall.amount <= lastCall.before THEN lastCall.amount
                ELSE lastCall.before)
         /\ stored_energy = FRound(lastCall.before - lastCall.ret)
         /\ lastCall.fields = <<capacity_kw, max_storage, current_generation>>

\* C4 witness: a store that is clamped to the remaining capacity, on a buffer
\* that already holds energy.
C4_Witness ==
    /\ lastCall.op = "store_energy"
    /\ lastCall.before > 0
    /\ 0 < lastCall.ret
    /\ lastCall.ret < lastCall.amount

\* C5: at every minute of the day exactly one default period matches, the
\* loop returns (the fallback is not reached), and the rate is 0.40 in
\* 14:00..20:00, 0.25 in 07:00..14:00 and 0.15 otherwise; 13:59 gives 0.25,
\* 14:00 gives 0.40, 23:00 and 06:59 give 0.15.
C5_DefaultTariffLookup ==
    /\ Cardinality({i \in DOMAIN periods : PeriodMatches(periods[i], clock)}) = 1
    /\ FirstMatch(1, clock) # 0
    /\ rate # <<>> => rate = <<DefaultRate(clock)>>
    /\ rate # <<>> /\ clock = TimeOf(13, 59) => rate = <<25>>
    /\ rate # <<>> /\ clock = TimeOf(14, 0) => rate = <<40>>
    /\ rate # <<>> /\ clock = TimeOf(23, 0) => rate = <<15>>
    /\ rate # <<>> /\ clock = TimeOf(6, 59) => rate = <<15>>

\* C5 witness: the rate was read at 06:59, inside the period that wraps
\* midnight.
C5_Witness ==
    /\ clock = TimeOf(6, 59)
    /\ rate = <<15>>

\* C6: update_generation returns capacity_kw * (1 - |hour - 12| / 6) * U for
\* 6 <= hour <= 18 and 0 outside, a value in [0, capacity_kw], and
\* current_generation holds the value last returned.
C6_GenerationTriangleWithinCapacity ==
    /\ 0 <= current_generation
    /\ current_generation <= capacity_kw * Scale
    /\ lastCall.op = "update_generation" =>
         /\ current_generation = lastCall.ret
         /\ lastCall.hour < 6 \/ lastCall.hour > 18 => lastCall.ret = 0
         /\ 6 <= lastCall.hour /\ lastCall.hour <= 12 =>
               lastCall.ret = capacity_kw * (lastCall.hour - 6) * lastCall.u
         /\ 12 <= lastCall.hour /\ lastCall.hour <= 18 =>
               lastCall.ret = capacity_kw * (18 - lastCall.hour) * lastCall.u

\* C6 witness: noon with no noise loss gives the full capacity.
C6_Witness ==
    /\ lastCall.op = "update_generation"
    /\ lastCall.hour = 12
    /\ current_generation = capacity_kw * Scale

\* The sum of f over the records lo..hi of a log.
RECURSIVE SumOver(_, _, _, _)
SumOver(log, field, lo, hi) ==
    IF lo > hi THEN 0 ELSE log[hi][field] + SumOver(log, field, lo, hi - 1)

RecentFrom == Len(usage_history) - Min(Len(usage_history), DailyWindow) + 1

RecentUsage == SumOver(usage_history, "usage", RecentFrom, Len(usage_history))

RecentCost == SumOver(cost_history, "cost", RecentFrom, Len(cost_history))

\* A fraction <<a, b>> equals n / d.
IsQuotient(fraction, n, d) ==
    /\ fraction[2] > 0
    /\ fraction[1] * d = fraction[2] * n

\* C7 as stated: total_usage and total_cost are the sums over the last
\* min(n, 24) records, and average_rate is total_cost / total_usage when
\* total_usage is not 0, and 0 when it is 0.
C7_AverageWheneverUsageNotZero ==
    summary # <<>> =>
        /\ summary[1].total_usage = RecentUsage
        /\ summary[1].total_cost = RecentCost
        /\ RecentUsage # 0 =>
              IsQuotient(summary[1].average_rate, RecentCost, RecentUsage)
        /\ RecentUsage = 0 => summary[1].average_rate = Zero

\* C7 amended: total_usage and total_cost are the sums over the last
\* min(n, 24) records; average_rate is total_cost / total_usage when
\* total_usage > 0 and 0 when total_usage <= 0; an empty log gives {0, 0, 0};
\* the single record {usage=2, cost=1} gives average_rate 1/2.
C7_SummaryOfLastDay ==
    summary # <<>> =>
        /\ summary[1].total_usage = RecentUsage
        /\ summary[1].total_cost = RecentCost
        /\ RecentUsage > 0 =>
              IsQuotient(summary[1].average_rate, RecentCost, RecentUsage)
        /\ RecentUsage <= 0 => summary[1].average_rate = Zero
        /\ usage_history = <<>> =>
              summary[1] = [total_usage |-> 0, total_cost |-> 0,
                            average_rate |-> Zero]
        /\ Len(usage_history) = 1 /\ usage_history[1].usage = 2
              /\ cost_history[1].cost = 1
              => summary[1].average_rate = <<1, 2>>

\* C7 witness: a summary of a log longer than a day whose oldest, dropped
\* record differs from the rest.
C7_Witness ==
    /\ summary # <<>>
    /\ Len(usage_history) > DailyWindow
    /\ usage_history[1].usage # BaseReading.usage
    /\ summary[1].total_usage > 0

\* C8: a call that is about to return, with the window, the registry and the
\* noise values of the call that returned last, returns the same schedule.
C8_SameInputsSameSchedule ==
    /\ pc = "loop"
    /\ hour >= window
    /\ returned # <<>>
    /\ returned[1].window = window
    /\ returned[1].appliances = appliance_schedule
    /\ returned[1].noise = noise
    => schedule = returned[1].schedule

\* C9: a store or withdraw call with a negative or zero amount leaves
\* stored_energy as it was.
C9_NonPositiveAmountMovesNothing ==
    /\ lastCall.op \in {"store_energy", "use_stored_energy"}
    /\ lastCall.amount <= 0
    => stored_energy = lastCall.before

\* C10: for every window_hours >= 0, above 24 too, the call ends without
\* raising, and the keys of the schedule lie in 0..window_hours-1.
C10_EveryWindowCompletes ==
    /\ outcome # "ValueError"
    /\ returned # <<>> =>
          DOMAIN returned[1].schedule \subseteq 0..(returned[1].window - 1)

=============================================================================
